---- MODULE Spec2Model ----
(***************************************************************************)
(* particula-rs: a container of particles and particle emitters advanced   *)
(* by a per-frame update (emit, admit, integrate, cull particles, cull     *)
(* emitters) and read by draw / iter_particles.                            *)
(*                                                                         *)
(* Numbers.  age, max_age and dt are f64 in the source and f64 values in    *)
(* the model (section f64): age += dt is the binary64 sum, rounded.  The   *)
(* division of get_age_percent is modelled by its IEEE-754 result class    *)
(* (NaN, +inf, -inf or the quotient of num and den): for finite num and    *)
(* den > 0 the rounded quotient is below 1.0 exactly when num < den,       *)
(* because the largest quotient of two such f64 with num < den is          *)
(* 1 - 2^-53, which is itself an f64.                                      *)
(*                                                                         *)
(* Particles.  A particle is [id, kind, age, max_age].  kind selects the   *)
(* is_alive implementation: "MaxAging" is the default method of the        *)
(* MaxAging trait (lib.rs), "BaseParticle" is the example particle         *)
(* (explosion.rs).  Position and velocity take no part in liveness or      *)
(* ordering and are left out.  id is the identity of the boxed object.     *)
(*                                                                         *)
(* Emitters.  The crate has no concrete emitter; an emitter is             *)
(* [id, rate, kind, max_age, ttl]: each update returns `rate` new          *)
(* particles of the given kind and max_age with age 0, and ttl counts the  *)
(* updates left before is_alive() turns false (Forever: never).            *)
(*                                                                         *)
(* Calls.  Spec lets the owner of the system make every public call:       *)
(* add_particle, add_emitter, update, draw, and between two update calls   *)
(* also update_particles, update_emitters, clean_particles,                *)
(* clean_emitters and, through iter_particles_mut / iter_emitters_mut, an  *)
(* update of one held object or the assignment of a new box to its place.  *)
(* SpecLoop is the frame loop of the example, which only adds, updates     *)
(* and draws.  SpecCull runs the culls on every arrangement of alive and   *)
(* dead particles and emitters.  update is a sequence of five statements   *)
(* (pc); the other calls are single steps, since the owner holds the only  *)
(* &mut reference.                                                         *)
(***************************************************************************)
EXTENDS Integers, Sequences, FiniteSets

VARIABLES
    particles,        \* BaseParticleSystem.particles
    emitters,         \* BaseParticleSystem.emitters
    pc,               \* position inside ParticleSystem::update (0: not in update)
    dt,               \* the dt argument of the update call
    new_particles,    \* the local new_particles of ParticleSystem::update
    op,               \* the most recent call made on the system
    log,              \* what the most recent call did, in order
    start_particles,  \* particles when the most recent call was entered
    start_emitters,   \* emitters when the most recent call was entered
    touched,          \* held objects the owner has added, stored or advanced with a call
                      \* of its own since the last update call returned
    nextId            \* identity of the next object created

vars == <<particles, emitters, pc, dt, new_particles, op, log,
          start_particles, start_emitters, touched, nextId>>

----------------------------------------------------------------------------
(* Bounds *)

MaxIds == 2        \* objects (particles and emitters) created in one behaviour of Spec
MaxAge == 1        \* in Spec, no call is made that would take an age past this
MaxLoopIds == 3    \* objects created in one behaviour of SpecLoop
MaxLoopAge == 2    \* in SpecLoop, update is not called once it would take an age past this
MaxEmitters == 2   \* emitters held at once
MaxRate == 1       \* an emitter passed to add_emitter returns 0..MaxRate particles per update

----------------------------------------------------------------------------
(* f64.  A finite f64 value is [neg, mag]: neg is the sign bit and mag the  *)
(* magnitude times 2^60 written in base 2^30, least significant digit       *)
(* first, in four digits.  Every f64 whose magnitude is 0 or lies in        *)
(* [2^-8, 2^60) is such a value, exactly; the values of the bounded runs    *)
(* lie in that range.  0.0 is [FALSE, <<0, 0, 0, 0>>] and -0.0 is           *)
(* [TRUE, <<0, 0, 0, 0>>]: the two compare equal and divide differently.    *)
(* An operation is the exact result rounded to 53 significant bits, ties    *)
(* to even, as IEEE-754 binary64 does it.                                   *)

Digit == 2 ^ 30

MagZero == <<0, 0, 0, 0>>

\* the number of significant bits of n, 0 <= n < 2^30
BitsOf(n) == IF n = 0 THEN 0 ELSE CHOOSE k \in 1 .. 30 : 2 ^ (k - 1) <= n /\ n < 2 ^ k

\* the number of significant bits of the magnitude a
BitLen(a) ==
    IF a = MagZero THEN 0
    ELSE LET top == CHOOSE i \in 1 .. 4 : a[i] # 0 /\ \A j \in i + 1 .. 4 : a[j] = 0
         IN 30 * (top - 1) + BitsOf(a[top])

\* bit k of a (bit 0 is the least significant)
Bit(a, k) == (a[(k \div 30) + 1] \div (2 ^ (k % 30))) % 2

\* the bits of a below bit k are all 0
LowZero(a, k) ==
    /\ \A i \in 1 .. (k \div 30) : a[i] = 0
    /\ a[(k \div 30) + 1] % (2 ^ (k % 30)) = 0

\* a with the bits below bit k cleared
ClearLow(a, k) ==
    [i \in 1 .. 4 |->
        IF i < (k \div 30) + 1 THEN 0
        ELSE IF i = (k \div 30) + 1 THEN a[i] - (a[i] % (2 ^ (k % 30)))
        ELSE a[i]]

\* 2^k
Pow2(k) == [i \in 1 .. 4 |-> IF i = (k \div 30) + 1 THEN 2 ^ (k % 30) ELSE 0]

\* the exact sum of two magnitudes
MagAdd(a, b) ==
    LET carry[i \in 0 .. 4] ==
            IF i = 0 THEN 0 ELSE (a[i] + b[i] + carry[i - 1]) \div Digit
    IN [i \in 1 .. 4 |-> (a[i] + b[i] + carry[i - 1]) % Digit]

\* the exact difference a - b of two magnitudes, a >= b
MagSub(a, b) ==
    LET borrow[i \in 0 .. 4] ==
            IF i = 0 THEN 0
            ELSE IF a[i] - b[i] - borrow[i - 1] < 0 THEN 1 ELSE 0
    IN [i \in 1 .. 4 |-> (a[i] - b[i] - borrow[i - 1] + Digit) % Digit]

\* a < b
MagLt(a, b) ==
    \E i \in 1 .. 4 : a[i] < b[i] /\ \A j \in i + 1 .. 4 : a[j] = b[j]

\* the one element of a singleton set
Only(S) == CHOOSE r \in S : TRUE

\* the magnitude a with its q lowest bits rounded away, ties to even
RoundLow(a, q) ==
    IF q <= 0 THEN a
    ELSE IF Bit(a, q - 1) = 1 /\ (~LowZero(a, q - 1) \/ Bit(a, q) = 1)
         THEN MagAdd(ClearLow(a, q), Pow2(q))
         ELSE ClearLow(a, q)

\* the exact magnitude a rounded to 53 significant bits, ties to even
\* (the singleton sets name an intermediate result, which is then computed once)
Round53(a) == Only({RoundLow(a, q) : q \in {BitLen(a) - 53}})

F64Zero == [neg |-> FALSE, mag |-> MagZero]

\* -0.0
F64NegZero == [neg |-> TRUE, mag |-> MagZero]

\* 0.1 = 0x1.999999999999ap-4
F64Tenth == [neg |-> FALSE, mag |-> <<429496736, 107374182, 0, 0>>]

\* 0.3 = 0x1.3333333333333p-2
F64ThreeTenths == [neg |-> FALSE, mag |-> <<214748352, 322122547, 0, 0>>]

\* 2^k as an f64, -8 <= k < 60
F64Pow2(k) == [neg |-> FALSE, mag |-> Pow2(60 + k)]

\* the f64 of the integer n, |n| < 2^30
F64FromInt(n) ==
    [neg |-> n < 0, mag |-> <<0, 0, IF n < 0 THEN 0 - n ELSE n, 0>>]

F64IsZero(x) == x.mag = MagZero

\* x < 0.0
F64IsNeg(x) == x.neg /\ x.mag # MagZero

\* the f64 comparison x < y
F64Lt(x, y) ==
    IF F64IsNeg(x) THEN (~F64IsNeg(y) \/ MagLt(y.mag, x.mag))
    ELSE ~F64IsNeg(y) /\ MagLt(x.mag, y.mag)

\* the f64 comparison x == y: 0.0 == -0.0
F64Eq(x, y) == x.mag = y.mag /\ (x.mag = MagZero \/ x.neg = y.neg)

\* the f64 comparison x <= y
F64Le(x, y) == F64Eq(x, y) \/ F64Lt(x, y)

\* the f64 sum x + y: of equal signs, the sum of the magnitudes with that
\* sign (-0.0 + -0.0 = -0.0); of opposite signs, the difference with the
\* sign of the larger magnitude, and 0.0 when the magnitudes are equal
F64Add(x, y) ==
    IF x.neg = y.neg
    THEN [neg |-> x.neg, mag |-> Only({Round53(s) : s \in {MagAdd(x.mag, y.mag)}})]
    ELSE IF x.mag = y.mag THEN F64Zero
    ELSE IF MagLt(y.mag, x.mag)
         THEN [neg |-> x.neg, mag |-> Only({Round53(s) : s \in {MagSub(x.mag, y.mag)}})]
         ELSE [neg |-> y.neg, mag |-> Only({Round53(s) : s \in {MagSub(y.mag, x.mag)}})]

\* a * 2^k, exactly (a < 2^(120 - k))
MagShl(a, k) ==
    LET q == k \div 30
        r == k % 30
        digit(i) == IF i \in 1 .. 4 THEN a[i] ELSE 0
    IN [i \in 1 .. 4 |->
           (digit(i - q) % (2 ^ (30 - r))) * (2 ^ r) + (digit(i - q - 1) \div (2 ^ (30 - r)))]

\* the f64 product x * 2^k of a power of two, k >= 0: exact
F64MulPow2(x, k) == [neg |-> x.neg, mag |-> MagShl(x.mag, k)]

\* the f64 product n as f64 * x, for an integer n >= 0: the sign is the
\* sign of x, also when the product is zero (0.0 * -0.1 = -0.0)
F64MulInt(n, x) ==
    LET times[k \in 0 .. n] == IF k = 0 THEN MagZero ELSE MagAdd(times[k - 1], x.mag)
    IN [neg |-> x.neg, mag |-> Only({Round53(s) : s \in {times[n]}})]

----------------------------------------------------------------------------
(* Inputs *)

Forever == -1

\* the dt of an update call in Spec: 0.0, 1.0
DtSet == {F64Zero, F64FromInt(1)}
\* the dt of the update calls the owner makes itself: 1.0
OwnerDtSet == {F64FromInt(1)}
\* kind, age and max_age of a particle passed to add_particle: age is 0.0 as
\* the constructor leaves it, or what Aging::set_age made it before the call
ParticleInputs ==
    ({"MaxAging"} \X {F64Zero} \X {F64FromInt(-1), F64NegZero, F64Zero, F64FromInt(1)})
        \cup ({"BaseParticle"} \X {F64Zero} \X {F64FromInt(1)})
\* max_age of the particles of an emitter passed to add_emitter
EmitLifeSet == {F64Zero, F64FromInt(2)}
Kinds == {"MaxAging", "BaseParticle"}
TtlSet == {0, 1, Forever}

----------------------------------------------------------------------------
(* Particle *)

\* MaxAging::get_age_percent: the f64 quotient age / max_age.  A zero
\* divided by a zero is NaN; another age divided by a zero is an infinity
\* whose sign is the product of the two signs (1.0 / -0.0 = -inf).
get_age_percent(p) ==
    IF F64IsZero(p.max_age)
    THEN IF F64IsZero(p.age) THEN [cls |-> "NaN", num |-> F64Zero, den |-> F64Zero]
         ELSE IF p.age.neg = p.max_age.neg
              THEN [cls |-> "+inf", num |-> F64Zero, den |-> F64Zero]
              ELSE [cls |-> "-inf", num |-> F64Zero, den |-> F64Zero]
    ELSE [cls |-> "finite", num |-> p.age, den |-> p.max_age]

\* the comparison written x <= 1.0
AtMostOne(x) ==
    CASE x.cls = "NaN" -> FALSE
      [] x.cls = "+inf" -> FALSE
      [] x.cls = "-inf" -> TRUE
      [] OTHER -> IF ~F64IsNeg(x.den) THEN F64Le(x.num, x.den) ELSE F64Le(x.den, x.num)

\* The f64 comparison x < 1.0.
LessThanOne(x) ==
    CASE x.cls = "NaN" -> FALSE
      [] x.cls = "+inf" -> FALSE
      [] x.cls = "-inf" -> TRUE
      [] OTHER -> IF ~F64IsNeg(x.den) THEN F64Lt(x.num, x.den) ELSE F64Lt(x.den, x.num)

\* MaxAging::is_alive
MaxAging_is_alive(p) == LessThanOne(get_age_percent(p))

\* BaseParticle::is_alive (examples/explosion.rs)
BaseParticle_is_alive(p) == F64Le(p.age, p.max_age)

\* Particle::is_alive, dispatched on the concrete type
particle_is_alive(p) ==
    IF p.kind = "MaxAging" THEN MaxAging_is_alive(p) ELSE BaseParticle_is_alive(p)

\* update that moves the particle but does not age it
particle_update_no_age(p, d) == p

\* Particle::update: BaseParticle::update, age += dt
particle_update(p, d) == [p EXCEPT !.age = F64Add(@, d)]

----------------------------------------------------------------------------
(* ParticleEmitter *)

\* ParticleEmitter::is_alive
emitter_is_alive(e) == e.ttl # 0

\* ParticleEmitter::update, the emitter's own state afterwards
emitter_update(e) == [e EXCEPT !.ttl = IF @ > 0 THEN @ - 1 ELSE @]

\* ParticleEmitter::update, the returned Vec; the new objects are first, first+1, ...
emitter_emit(e, first) ==
    [j \in 1 .. e.rate |->
        [id |-> first + j - 1, kind |-> e.kind, age |-> F64Zero, max_age |-> e.max_age]]

----------------------------------------------------------------------------
(* Log entries *)

Ev(name, id, d, src) == [ev |-> name, id |-> id, dt |-> d, src |-> src]

Ids(s) == {s[i].id : i \in 1 .. Len(s)}

----------------------------------------------------------------------------
(* BaseParticleSystem *)

\* iter_particles filtering out the particles that are not alive
iter_particles_alive_only(ps) == SelectSeq(ps, LAMBDA p : particle_is_alive(p))

\* BaseParticleSystem::iter_particles, iter_particles_mut: self.particles.iter()
iter_particles(ps) == ps

\* BaseParticleSystem::iter_emitters, iter_emitters_mut: self.emitters.iter()
iter_emitters(es) == es

\* BaseParticleSystem::add_particle: self.particles.push(particle)
add_particle(ps, p) == Append(ps, p)

\* BaseParticleSystem::add_emitter: self.emitters.push(emitter)
add_emitter(es, e) == Append(es, e)

\* retain that takes each rejected element out with Vec::swap_remove
retain_swap_remove(s, keep) ==
    LET tagged == [i \in 1 .. Len(s) |-> [x |-> s[i], k |-> keep[i]]]
        st[n \in 0 .. Len(s)] ==
            IF n = 0 THEN [s |-> tagged, i |-> 1]
            ELSE LET t == st[n - 1].s
                     i == st[n - 1].i
                 IN IF i > Len(t) THEN st[n - 1]
                    ELSE IF t[i].k THEN [s |-> t, i |-> i + 1]
                    ELSE [s |-> SubSeq([t EXCEPT ![i] = t[Len(t)]], 1, Len(t) - 1),
                          i |-> i]
        out == st[Len(s)].s
    IN [i \in 1 .. Len(out) |-> out[i].x]

\* Vec::retain: the elements of s in their order, those kept for which the
\* predicate (keep[i] for s[i]) holds
retain(s, keep) ==
    LET kept[i \in 0 .. Len(s)] ==
            IF i = 0 THEN <<>>
            ELSE IF keep[i] THEN Append(kept[i - 1], s[i])
            ELSE kept[i - 1]
    IN kept[Len(s)]

\* clean_particles whose scan stops one short of the end
clean_particles_spare_last(ps) ==
    IF ps = <<>> THEN <<>>
    ELSE SelectSeq(SubSeq(ps, 1, Len(ps) - 1), LAMBDA p : particle_is_alive(p))
             \o <<ps[Len(ps)]>>

\* BaseParticleSystem::clean_particles: self.particles.retain(|p| p.is_alive())
clean_particles(ps) == retain(ps, [i \in 1 .. Len(ps) |-> particle_is_alive(ps[i])])

\* clean_emitters removing nothing
clean_emitters_keep_all(es) == es

\* BaseParticleSystem::clean_emitters: self.emitters.retain(|e| e.is_alive())
clean_emitters(es) == retain(es, [i \in 1 .. Len(es) |-> emitter_is_alive(es[i])])

----------------------------------------------------------------------------
(* ParticleSystem, the provided methods *)

\* update_particles passing over the particles that are not alive
update_particles_alive_only(ps, d) ==
    [i \in 1 .. Len(ps) |-> IF particle_is_alive(ps[i]) THEN particle_update(ps[i], d) ELSE ps[i]]

\* ParticleSystem::update_particles: every particle of iter_particles_mut is updated
update_particles(ps, d) ==
    [i \in 1 .. Len(iter_particles(ps)) |-> particle_update(iter_particles(ps)[i], d)]

\* ParticleSystem::update_emitters, the emitters afterwards
update_emitters_state(es) ==
    [i \in 1 .. Len(iter_emitters(es)) |-> emitter_update(iter_emitters(es)[i])]

\* the number of particles the emitters es return in one update
Emitted(es) ==
    LET n[i \in 0 .. Len(es)] == IF i = 0 THEN 0 ELSE n[i - 1] + es[i].rate
    IN n[Len(es)]

\* update_emitters dropping the batch of an emitter that is dead after its update
update_emitters_skip_dying(es, first) ==
    LET got[i \in 0 .. Len(es)] ==
            IF i = 0 THEN <<>>
            ELSE IF emitter_is_alive(emitter_update(es[i]))
                 THEN got[i - 1] \o emitter_emit(es[i], first + Emitted(SubSeq(es, 1, i - 1)))
                 ELSE got[i - 1]
    IN got[Len(es)]

\* update_emitters collecting every batch in front of the earlier ones
update_emitters_prepend(es, first) ==
    LET got[i \in 0 .. Len(es)] ==
            IF i = 0 THEN <<>>
            ELSE emitter_emit(es[i], first + Len(got[i - 1])) \o got[i - 1]
    IN got[Len(es)]

\* ParticleSystem::update_emitters, the returned Vec: the flat_map of the
\* emitters' batches, in container order
update_emitters(es, first) ==
    LET got[i \in 0 .. Len(es)] ==
            IF i = 0 THEN <<>>
            ELSE got[i - 1] \o emitter_emit(iter_emitters(es)[i], first + Len(got[i - 1]))
    IN got[Len(es)]

\* update with the particle cull moved before the integration
UpdateBody_CullFirst ==
    <<"update_emitters", "add_particle", "clean_particles",
      "update_particles", "clean_emitters">>

\* update with the new particles added only after the integration
UpdateBody_LateAdmit ==
    <<"update_emitters", "update_particles", "add_particle",
      "clean_particles", "clean_emitters">>

\* ParticleSystem::update, lines 61-70: the five statements in program order
UpdateBody ==
    <<"update_emitters", "add_particle", "update_particles",
      "clean_particles", "clean_emitters">>

At(stmt) == pc \in 1 .. Len(UpdateBody) /\ UpdateBody[pc] = stmt

\* the next statement, or the return to the caller
Advance ==
    /\ pc' = IF pc = Len(UpdateBody) THEN 0 ELSE pc + 1
    /\ touched' = IF pc = Len(UpdateBody) THEN {} ELSE touched

\* The emitters' update calls and the particles each returned, in call order
EmitLog(es, first, d) ==
    LET lg[i \in 0 .. Len(es)] ==
            IF i = 0 THEN <<>>
            ELSE LET batch == emitter_emit(es[i], first + Emitted(SubSeq(es, 1, i - 1)))
                 IN lg[i - 1] \o <<Ev("emitter.update", es[i].id, d, 0)>>
                      \o [j \in 1 .. Len(batch) |-> Ev("returned", batch[j].id, d, es[i].id)]
    IN lg[Len(es)]

Removed(before, after) ==
    LET gone[i \in 0 .. Len(before)] ==
            IF i = 0 THEN <<>>
            ELSE IF before[i].id \in Ids(after) THEN gone[i - 1]
            ELSE Append(gone[i - 1], before[i].id)
    IN gone[Len(before)]

----------------------------------------------------------------------------
(* Initial state: BaseParticleSystem::default() *)

Init ==
    /\ particles = <<>>
    /\ emitters = <<>>
    /\ pc = 0
    /\ dt = F64Zero
    /\ new_particles = <<>>
    /\ op = "default"
    /\ log = <<>>
    /\ start_particles = <<>>
    /\ start_emitters = <<>>
    /\ touched = {}
    /\ nextId = 1

----------------------------------------------------------------------------
(* Calls made by the owner of the system *)

\* system.add_particle(Box::new(p)), while fewer than n objects were created
AddParticle(n) ==
    /\ pc = 0
    /\ nextId <= n
    /\ \E in \in ParticleInputs :
          particles' = add_particle(particles,
                           [id |-> nextId, kind |-> in[1], age |-> in[2], max_age |-> in[3]])
    /\ nextId' = nextId + 1
    /\ op' = "add_particle"
    /\ log' = <<>>
    /\ touched' = touched \cup {nextId}
    /\ start_particles' = particles
    /\ start_emitters' = emitters
    /\ UNCHANGED <<emitters, pc, dt, new_particles>>

\* system.add_emitter(Box::new(e)), while fewer than n objects were created
AddEmitter(n) ==
    /\ pc = 0
    /\ nextId <= n
    /\ Len(emitters) < MaxEmitters
    /\ \E r \in 0 .. MaxRate, k \in {"MaxAging"}, m \in EmitLifeSet, t \in TtlSet :
          /\ r = 0 => m = F64Zero    \* an emitter that returns nothing: one max_age is enough
          /\ emitters' = add_emitter(emitters,
                          [id |-> nextId, rate |-> r, kind |-> k, max_age |-> m, ttl |-> t])
    /\ nextId' = nextId + 1
    /\ op' = "add_emitter"
    /\ log' = <<>>
    /\ touched' = touched \cup {nextId}
    /\ start_particles' = particles
    /\ start_emitters' = emitters
    /\ UNCHANGED <<particles, pc, dt, new_particles>>

\* no age goes past a when the particles ps are updated with d
CanAge(ps, d, a) ==
    \A i \in 1 .. Len(ps) : F64Le(F64Add(ps[i].age, d), F64FromInt(a))

\* with what the emitters es return, no more than n objects are created
CanEmit(es, n) == nextId + Emitted(es) <= n + 1

\* update(d) keeps the behaviour within n objects and the ages within a
CanUpdate(d, n, a) == CanEmit(emitters, n) /\ CanAge(particles, d, a)

\* system.update(d): entry, binding the argument
Update(d) ==
    /\ pc = 0
    /\ pc' = 1
    /\ dt' = d
    /\ new_particles' = <<>>
    /\ op' = "update"
    /\ log' = <<>>
    /\ start_particles' = particles
    /\ start_emitters' = emitters
    /\ UNCHANGED <<particles, emitters, touched, nextId>>

UpdateCall(n, a) == \E d \in DtSet : CanUpdate(d, n, a) /\ Update(d)

\* let new_particles = self.update_emitters(dt);
StepUpdateEmitters ==
    /\ At("update_emitters")
    /\ new_particles' = update_emitters(emitters, nextId)
    /\ emitters' = update_emitters_state(emitters)
    /\ nextId' = nextId + Emitted(emitters)
    /\ log' = log \o <<Ev("update_emitters", 0, dt, 0)>> \o EmitLog(emitters, nextId, dt)
    /\ Advance
    /\ UNCHANGED <<particles, dt, op, start_particles, start_emitters>>

\* for new_particle in new_particles { self.add_particle(new_particle); }
StepAdmit ==
    /\ At("add_particle")
    /\ LET pushed[i \in 0 .. Len(new_particles)] ==
               IF i = 0 THEN particles ELSE add_particle(pushed[i - 1], new_particles[i])
       IN particles' = pushed[Len(new_particles)]
    /\ new_particles' = <<>>
    /\ log' = log \o <<Ev("add_particle", 0, dt, 0)>>
                  \o [i \in 1 .. Len(new_particles) |-> Ev("push", new_particles[i].id, dt, 0)]
    /\ Advance
    /\ UNCHANGED <<emitters, dt, op, start_particles, start_emitters, nextId>>

\* update_particles that cannot run on an empty vector (len - 1 underflows, the call aborts)
StepUpdateParticles_NonEmpty ==
    /\ At("update_particles")
    /\ particles # <<>>
    /\ particles' = update_particles(particles, dt)
    /\ log' = log \o <<Ev("update_particles", 0, dt, 0)>>
                  \o [i \in 1 .. Len(particles) |-> Ev("particle.update", particles[i].id, dt, 0)]
    /\ Advance
    /\ UNCHANGED <<emitters, dt, new_particles, op, start_particles, start_emitters, nextId>>

\* self.update_particles(dt);
StepUpdateParticles ==
    /\ At("update_particles")
    /\ particles' = update_particles(particles, dt)
    /\ log' = log \o <<Ev("update_particles", 0, dt, 0)>>
                  \o [i \in 1 .. Len(particles) |-> Ev("particle.update", particles[i].id, dt, 0)]
    /\ Advance
    /\ UNCHANGED <<emitters, dt, new_particles, op, start_particles, start_emitters, nextId>>

\* self.clean_particles();
StepCleanParticles ==
    /\ At("clean_particles")
    /\ particles' = clean_particles(particles)
    /\ log' = log \o <<Ev("clean_particles", 0, dt, 0)>>
                  \o [i \in 1 .. Len(Removed(particles, particles')) |->
                         Ev("particle.removed", Removed(particles, particles')[i], dt, 0)]
    /\ Advance
    /\ UNCHANGED <<emitters, dt, new_particles, op, start_particles, start_emitters, nextId>>

\* self.clean_emitters();
StepCleanEmitters ==
    /\ At("clean_emitters")
    /\ emitters' = clean_emitters(emitters)
    /\ log' = log \o <<Ev("clean_emitters", 0, dt, 0)>>
                  \o [i \in 1 .. Len(Removed(emitters, emitters')) |->
                         Ev("emitter.removed", Removed(emitters, emitters')[i], dt, 0)]
    /\ Advance
    /\ UNCHANGED <<particles, dt, new_particles, op, start_particles, start_emitters, nextId>>

\* system.draw(): particle.draw() for every particle of iter_particles
Draw ==
    /\ pc = 0
    /\ op # "draw"
    /\ op' = "draw"
    /\ log' = [i \in 1 .. Len(iter_particles(particles)) |->
                  Ev("particle.draw", iter_particles(particles)[i].id, 0, 0)]
    /\ start_particles' = particles
    /\ start_emitters' = emitters
    /\ UNCHANGED <<particles, emitters, pc, dt, new_particles, touched, nextId>>

\* a call other than update made by the owner: what every such call records
OwnerCall(name) ==
    /\ pc = 0
    /\ op' = name
    /\ start_particles' = particles
    /\ start_emitters' = emitters
    /\ UNCHANGED <<pc, dt, new_particles>>

\* system.update_particles(d), called by the owner
CallUpdateParticles ==
    /\ OwnerCall("update_particles")
    /\ \E d \in OwnerDtSet :
          /\ CanAge(particles, d, MaxAge)
          /\ particles' = update_particles(particles, d)
          /\ log' = [i \in 1 .. Len(particles) |-> Ev("particle.update", particles[i].id, d, 0)]
    /\ touched' = touched \cup Ids(particles)
    /\ UNCHANGED <<emitters, nextId>>

\* system.update_emitters(d), called by the owner, who receives the returned Vec
CallUpdateEmitters ==
    /\ OwnerCall("update_emitters")
    /\ CanEmit(emitters, MaxIds)
    /\ emitters' = update_emitters_state(emitters)
    /\ nextId' = nextId + Len(update_emitters(emitters, nextId))
    /\ \E d \in OwnerDtSet : log' = EmitLog(emitters, nextId, d)
    /\ touched' = touched \cup Ids(emitters)
    /\ UNCHANGED particles

\* system.clean_particles(), called by the owner
CallCleanParticles ==
    /\ OwnerCall("clean_particles")
    /\ particles' = clean_particles(particles)
    /\ log' = [i \in 1 .. Len(Removed(particles, particles')) |->
                  Ev("particle.removed", Removed(particles, particles')[i], 0, 0)]
    /\ touched' = touched \ (Ids(particles) \ Ids(particles'))
    /\ UNCHANGED <<emitters, nextId>>

\* system.clean_emitters(), called by the owner
CallCleanEmitters ==
    /\ OwnerCall("clean_emitters")
    /\ emitters' = clean_emitters(emitters)
    /\ log' = [i \in 1 .. Len(Removed(emitters, emitters')) |->
                  Ev("emitter.removed", Removed(emitters, emitters')[i], 0, 0)]
    /\ touched' = touched \ (Ids(emitters) \ Ids(emitters'))
    /\ UNCHANGED <<particles, nextId>>

\* for p in system.iter_particles_mut(): the owner calls p.update(d) on one of them
IterParticlesMutUpdate ==
    /\ OwnerCall("iter_particles_mut")
    /\ \E i \in 1 .. Len(iter_particles(particles)), d \in OwnerDtSet :
          /\ CanAge(<<particles[i]>>, d, MaxAge)
          /\ particles' = [particles EXCEPT ![i] = particle_update(@, d)]
          /\ log' = <<Ev("particle.update", particles[i].id, d, 0)>>
          /\ touched' = touched \cup {particles[i].id}
    /\ UNCHANGED <<emitters, nextId>>

\* for p in system.iter_particles_mut(): the owner assigns a new box to one of
\* them (*p = Box::new(q)), which drops the particle that was held there
IterParticlesMutAssign ==
    /\ OwnerCall("iter_particles_mut")
    /\ nextId <= MaxIds
    /\ \E i \in 1 .. Len(iter_particles(particles)), in \in ParticleInputs :
          /\ particles' = [particles EXCEPT ![i] =
                              [id |-> nextId, kind |-> in[1], age |-> in[2], max_age |-> in[3]]]
          /\ touched' = (touched \ {particles[i].id}) \cup {nextId}
    /\ nextId' = nextId + 1
    /\ log' = <<>>
    /\ UNCHANGED emitters

\* for e in system.iter_emitters_mut(): the owner calls e.update(d) on one of
\* them and receives the returned Vec
IterEmittersMutUpdate ==
    /\ OwnerCall("iter_emitters_mut")
    /\ \E i \in 1 .. Len(iter_emitters(emitters)), d \in OwnerDtSet :
          /\ CanEmit(<<emitters[i]>>, MaxIds)
          /\ emitters' = [emitters EXCEPT ![i] = emitter_update(@)]
          /\ nextId' = nextId + Len(emitter_emit(emitters[i], nextId))
          /\ log' = EmitLog(<<emitters[i]>>, nextId, d)
          /\ touched' = touched \cup {emitters[i].id}
    /\ UNCHANGED particles

\* for e in system.iter_emitters_mut(): the owner assigns a new box to one of
\* them (*e = Box::new(f)), which drops the emitter that was held there
IterEmittersMutAssign ==
    /\ OwnerCall("iter_emitters_mut")
    /\ nextId <= MaxIds
    /\ \E i \in 1 .. Len(iter_emitters(emitters)),
          r \in 0 .. MaxRate, k \in {"MaxAging"}, m \in EmitLifeSet, t \in TtlSet :
          /\ r = 0 => m = F64Zero
          /\ emitters' = [emitters EXCEPT ![i] =
                             [id |-> nextId, rate |-> r, kind |-> k, max_age |-> m, ttl |-> t]]
          /\ touched' = (touched \ {emitters[i].id}) \cup {nextId}
    /\ nextId' = nextId + 1
    /\ log' = <<>>
    /\ UNCHANGED particles

Next ==
    \/ AddParticle(MaxIds)
    \/ AddEmitter(MaxIds)
    \/ UpdateCall(MaxIds, MaxAge)
    \/ CallUpdateParticles
    \/ CallUpdateEmitters
    \/ CallCleanParticles
    \/ CallCleanEmitters
    \/ IterParticlesMutUpdate
    \/ IterParticlesMutAssign
    \/ IterEmittersMutUpdate
    \/ IterEmittersMutAssign
    \/ StepUpdateEmitters
    \/ StepAdmit
    \/ StepUpdateParticles
    \/ StepCleanParticles
    \/ StepCleanEmitters
    \/ Draw

Spec == Init /\ [][Next]_vars

----------------------------------------------------------------------------
(* The frame loop of the example: the owner adds particles and emitters,    *)
(* calls update and draws, and makes no other call.                         *)

LoopNext ==
    \/ AddParticle(MaxLoopIds)
    \/ AddEmitter(MaxLoopIds)
    \/ UpdateCall(MaxLoopIds, MaxLoopAge)
    \/ StepUpdateEmitters
    \/ StepAdmit
    \/ StepUpdateParticles
    \/ StepCleanParticles
    \/ StepCleanEmitters
    \/ Draw

SpecLoop == Init /\ [][LoopNext]_vars

----------------------------------------------------------------------------
(* The culls on a populated system: the owner has added up to MaxCullLen    *)
(* particles and then up to MaxCullLen emitters, alive or not in any        *)
(* arrangement, and calls clean_particles, clean_emitters or update.        *)

MaxCullLen == 3    \* particles, and emitters, added before the culls

\* the particles added: MaxAging not alive (max_age 0.0) and MaxAging alive
CullParticleInputs ==
    {<<"MaxAging", F64Zero, F64Zero>>, <<"MaxAging", F64Zero, F64FromInt(1)>>}

CullInit ==
    /\ \E np, ne \in 0 .. MaxCullLen,
          in \in [1 .. MaxCullLen -> CullParticleInputs], t \in [1 .. MaxCullLen -> TtlSet] :
          /\ particles = [i \in 1 .. np |->
                             [id |-> i, kind |-> in[i][1], age |-> in[i][2],
                              max_age |-> in[i][3]]]
          /\ emitters = [i \in 1 .. ne |->
                            [id |-> np + i, rate |-> 0, kind |-> "MaxAging",
                             max_age |-> F64Zero, ttl |-> t[i]]]
          /\ op = IF ne > 0 THEN "add_emitter" ELSE IF np > 0 THEN "add_particle" ELSE "default"
          /\ start_particles = IF ne = 0 /\ np > 0 THEN SubSeq(particles, 1, np - 1)
                                ELSE particles
          /\ start_emitters = IF ne > 0 THEN SubSeq(emitters, 1, ne - 1) ELSE <<>>
          /\ touched = 1 .. np + ne
          /\ nextId = np + ne + 1
    /\ pc = 0
    /\ dt = F64Zero
    /\ new_particles = <<>>
    /\ log = <<>>

CullNext ==
    \/ CallCleanParticles
    \/ CallCleanEmitters
    \/ UpdateCall(nextId - 1, MaxAge)
    \/ StepUpdateEmitters
    \/ StepAdmit
    \/ StepUpdateParticles
    \/ StepCleanParticles
    \/ StepCleanEmitters

SpecCull == CullInit /\ [][CullNext]_vars

----------------------------------------------------------------------------
(* The frame loop of a fixed scene: ScenEmitters emitters that never die,   *)
(* each returning the same number of particles of one kind with             *)
(* max_age = m as f64 * dt on every update, and update(dt) called with one  *)
(* fixed dt > 0.  The system is as the add_emitter calls left it.           *)

MaxScenEmitters == 2  \* 1..MaxScenEmitters emitters
MaxScenRate == 2      \* each returns 1..MaxScenRate particles per update
MaxScenLife == 6      \* max_age = m * dt for m in 1..MaxScenLife
MaxFrames == 7        \* update calls made

\* the fixed dt of the frame loop: 1.0, 0.1, 0.3
ScenDtSet == {F64FromInt(1), F64Tenth, F64ThreeTenths}

SceneEmitters(n, r, k, m) ==
    [i \in 1 .. n |-> [id |-> i, rate |-> r, kind |-> k, max_age |-> m, ttl |-> Forever]]

ScenInit ==
    /\ \E d \in ScenDtSet, n \in 1 .. MaxScenEmitters, r \in 1 .. MaxScenRate,
          k \in Kinds, m \in 1 .. MaxScenLife :
          /\ dt = d
          /\ emitters = SceneEmitters(n, r, k, F64MulInt(m, d))
          /\ start_emitters = SubSeq(emitters, 1, n - 1)
          /\ touched = 1 .. n
          /\ nextId = n + 1
    /\ particles = <<>>
    /\ pc = 0
    /\ new_particles = <<>>
    /\ op = "add_emitter"
    /\ log = <<>>
    /\ start_particles = <<>>

\* update calls returned so far: every call creates Emitted(emitters) particles
Frames == (nextId - 1 - Len(emitters)) \div Emitted(emitters)

ScenUpdate ==
    /\ Frames < MaxFrames
    /\ Update(dt)

ScenNext ==
    \/ ScenUpdate
    \/ StepUpdateEmitters
    \/ StepAdmit
    \/ StepUpdateParticles
    \/ StepCleanParticles
    \/ StepCleanEmitters

SpecScene == ScenInit /\ [][ScenNext]_vars

----------------------------------------------------------------------------
(* The frame loop of a scene whose emitters die: each emitter stops being   *)
(* alive after its own number of updates; update(dt) with the fixed dt > 0  *)
(* keeps being called, also once the system is empty.  Before the loop the  *)
(* owner has added the emitters and, possibly, a particle of its own.       *)

MaxTtl == 4           \* an emitter is alive for 1..MaxTtl updates

\* the fixed dt of the frame loop: 0.1
LiveDtSet == {F64Tenth}

\* max_age = m * dt of the emitted particles
LiveLifeSet == {1, 3}

\* the particles passed to add_particle before the loop: none, or one
\* MaxAging particle of age 2^53 and max_age 2^54
LiveHeldSet ==
    {<<>>, <<[kind |-> "MaxAging", age |-> F64Pow2(53), max_age |-> F64Pow2(54)]>>}

LiveInit ==
    /\ \E d \in LiveDtSet, n \in 1 .. MaxScenEmitters, r \in 1 .. MaxScenRate,
          k \in Kinds, m \in LiveLifeSet, t \in [1 .. MaxScenEmitters -> 1 .. MaxTtl],
          held \in LiveHeldSet :
          /\ held # <<>> => (n = 1 /\ r = 1)    \* the added particle: one scene is enough
          /\ dt = d
          /\ emitters = [i \in 1 .. n |->
                            [id |-> i, rate |-> r, kind |-> k, max_age |-> F64MulInt(m, d),
                             ttl |-> t[i]]]
          /\ particles = [i \in 1 .. Len(held) |->
                             [id |-> n + i, kind |-> held[i].kind, age |-> held[i].age,
                              max_age |-> held[i].max_age]]
          /\ start_emitters = SubSeq(emitters, 1, n - 1)
          /\ touched = 1 .. n + Len(held)
          /\ nextId = n + Len(held) + 1
    /\ pc = 0
    /\ new_particles = <<>>
    /\ op = "add_emitter"
    /\ log = <<>>
    /\ start_particles = particles

LiveUpdate == Update(dt)

LiveNext ==
    \/ LiveUpdate
    \/ StepUpdateEmitters
    \/ StepAdmit
    \/ StepUpdateParticles
    \/ StepCleanParticles
    \/ StepCleanEmitters

\* the owner keeps calling update, and a call in progress runs to its end
SpecLive == LiveInit /\ [][LiveNext]_vars /\ WF_vars(LiveNext)

----------------------------------------------------------------------------
(* Reading the log *)

\* the most recent call is an update and it has returned
Returned == pc = 0 /\ op = "update"

Idx(name) == {i \in 1 .. Len(log) : log[i].ev = name}

IdxOf(name, id) == {i \in 1 .. Len(log) : log[i].ev = name /\ log[i].id = id}

Calls == {"update_emitters", "add_particle", "update_particles",
          "clean_particles", "clean_emitters"}

\* the phase of update an entry belongs to
PhaseOf(name) ==
    CASE name \in {"update_emitters", "emitter.update", "returned"} -> 1
      [] name \in {"add_particle", "push"} -> 2
      [] name \in {"update_particles", "particle.update"} -> 3
      [] name \in {"clean_particles", "particle.removed"} -> 4
      [] name \in {"clean_emitters", "emitter.removed"} -> 5
      [] OTHER -> 0

CallsMade ==
    LET made == SelectSeq(log, LAMBDA e : e.ev \in Calls)
    IN [i \in 1 .. Len(made) |-> made[i].ev]

Held(s, id) == \E i \in 1 .. Len(s) : s[i].id = id

\* the ids of the entries called name, in log order
LogIds(name) ==
    LET sel == SelectSeq(log, LAMBDA e : e.ev = name)
    IN [i \in 1 .. Len(sel) |-> sel[i].id]

SeqIds(s) == [i \in 1 .. Len(s) |-> s[i].id]

----------------------------------------------------------------------------
(* C1: within every update call the five phases run in the order emit,     *)
(* admit, integrate, cull particles, cull emitters, each once and never    *)
(* interleaved: nothing of an earlier phase happens after anything of a    *)
(* later one (no emitter is advanced after a particle was integrated, no   *)
(* removal precedes an integration), and the call returns after all five,  *)
(* having advanced every emitter it held, appended what they returned and   *)
(* integrated every particle then held.                                     *)
C1_PhaseOrder ==
    op = "update" =>
        /\ \A i, j \in 1 .. Len(log) :
              i < j => PhaseOf(log[i].ev) <= PhaseOf(log[j].ev)
        /\ \A c \in Calls : Cardinality(Idx(c)) <= 1
        /\ \A i \in 1 .. Len(log) :
              log[i].ev \notin Calls =>
                  \E j \in 1 .. i - 1 :
                      log[j].ev \in Calls /\ PhaseOf(log[j].ev) = PhaseOf(log[i].ev)
        /\ \A i \in 1 .. Len(log) : PhaseOf(log[i].ev) \in 1 .. 5
        /\ pc = 0 =>
              /\ CallsMade = <<"update_emitters", "add_particle", "update_particles",
                               "clean_particles", "clean_emitters">>
              /\ LogIds("emitter.update") = SeqIds(start_emitters)
              /\ LogIds("push") = LogIds("returned")
              /\ LogIds("particle.update") = SeqIds(start_particles) \o LogIds("returned")

\* an update has returned in which every phase had something to do
C1_Witness ==
    /\ Returned
    /\ \A name \in {"emitter.update", "returned", "push", "particle.update",
                    "particle.removed", "emitter.removed"} : Idx(name) # {}
    /\ particles # <<>>

(* C2: every particle an emitter returns during an update call is          *)
(* integrated exactly once in that call, with the dt the emitter was        *)
(* given, after it was returned and before the particle cull of that call.  *)
C2_SameFrameAdmission ==
    op = "update" =>
        \A i \in Idx("returned") :
            /\ log[i].dt = dt
            /\ Cardinality(IdxOf("particle.update", log[i].id)) <= 1
            /\ \A c \in Idx("clean_particles") :
                  \E j \in IdxOf("particle.update", log[i].id) :
                      i < j /\ j < c /\ log[j].dt = log[i].dt
            /\ Returned => IdxOf("particle.update", log[i].id) # {}
            /\ At("clean_particles") =>
                  \E k \in 1 .. Len(particles) :
                      particles[k].id = log[i].id /\ particles[k].age = log[i].dt

\* an update with dt > 0 has returned, a particle born in it is still held
C2_Witness ==
    /\ Returned
    /\ F64Lt(F64Zero, dt)
    /\ \E i \in Idx("returned") : Held(particles, log[i].id)

(* C3 as stated: no particle that is not alive at the start of an update   *)
(* call is integrated by it, and no particle that is not alive is drawn by  *)
(* draw or yielded by iter_particles.                                       *)
C3_NoDeadParticleUsed ==
    /\ op = "update" =>
          \A i \in 1 .. Len(start_particles) :
              ~particle_is_alive(start_particles[i]) =>
                  IdxOf("particle.update", start_particles[i].id) = {}
    /\ op = "draw" =>
          \A i \in Idx("particle.draw") : \A k \in 1 .. Len(particles) :
              particles[k].id = log[i].id => particle_is_alive(particles[k])
    /\ pc = 0 =>
          \A k \in 1 .. Len(iter_particles(particles)) :
              particle_is_alive(iter_particles(particles)[k])

(* C4: when an update call returns, every particle held and every emitter  *)
(* held is alive, and whatever the call removed is no longer held.          *)
C4_PostUpdateAllAlive ==
    Returned =>
        /\ \A k \in 1 .. Len(particles) : particle_is_alive(particles[k])
        /\ \A k \in 1 .. Len(emitters) : emitter_is_alive(emitters[k])
        /\ \A i \in Idx("particle.removed") : ~Held(particles, log[i].id)
        /\ \A i \in Idx("emitter.removed") : ~Held(emitters, log[i].id)

\* an update has returned that removed a particle and an emitter and kept a particle
C4_Witness ==
    /\ Returned
    /\ Idx("particle.removed") # {}
    /\ Idx("emitter.removed") # {}
    /\ particles # <<>>

(* C5: when an emitter that was alive stops being alive in its update, the *)
(* particles that update returned are appended and integrated before the    *)
(* emitter is removed, the emitter is removed by the same update call, and  *)
(* each of those particles is held afterwards exactly if it is itself alive *)
(* after its integration.                                                   *)
C5_FinalBatchAdmitted ==
    op = "update" =>
        \A n \in 1 .. Len(start_emitters) :
            LET e == start_emitters[n] IN
            (emitter_is_alive(e) /\ ~emitter_is_alive(emitter_update(e))) =>
                /\ Returned => IdxOf("emitter.removed", e.id) # {}
                /\ \A r \in Idx("returned") :
                      log[r].src = e.id =>
                          /\ \A x \in IdxOf("emitter.removed", e.id) :
                                \E a \in IdxOf("push", log[r].id) :
                                \E u \in IdxOf("particle.update", log[r].id) :
                                    r < a /\ a < u /\ u < x
                          /\ Returned =>
                                (Held(particles, log[r].id) <=>
                                     particle_is_alive(particle_update(
                                         [id |-> log[r].id, kind |-> e.kind,
                                          age |-> F64Zero, max_age |-> e.max_age], dt)))

\* an update has returned in which an emitter died; a particle of its last batch is held
C5_Witness ==
    /\ Returned
    /\ \E n \in 1 .. Len(start_emitters) :
          /\ emitter_is_alive(start_emitters[n])
          /\ IdxOf("emitter.removed", start_emitters[n].id) # {}
          /\ \E r \in Idx("returned") :
                log[r].src = start_emitters[n].id /\ Held(particles, log[r].id)

(* C6 as stated: no update call invokes update on an emitter that was not  *)
(* alive before the call started.                                           *)
C6_NoDeadEmitterUpdated ==
    op = "update" =>
        \A n \in 1 .. Len(start_emitters) :
            ~emitter_is_alive(start_emitters[n]) =>
                IdxOf("emitter.update", start_emitters[n].id) = {}

\* after is the elements of before at the positions keep, in the same order
KeptInOrder(before, after, keep) ==
    /\ Len(after) = Cardinality(keep)
    /\ \A j \in 1 .. Len(after) :
          \E i \in keep :
              Cardinality({k \in keep : k < i}) = j - 1 /\ after[j] = before[i]

(* C7: clean_particles, called by update or by the owner, leaves exactly    *)
(* the alive particles, in their original relative order, and               *)
(* clean_emitters does the same for the emitters.                           *)
C7_CullPreservesOrder ==
    [][/\ (At("clean_particles") \/ (pc = 0 /\ op' = "clean_particles")) =>
              KeptInOrder(particles, particles',
                  {i \in 1 .. Len(particles) : particle_is_alive(particles[i])})
       /\ (At("clean_emitters") \/ (pc = 0 /\ op' = "clean_emitters")) =>
              KeptInOrder(emitters, emitters',
                  {i \in 1 .. Len(emitters) : emitter_is_alive(emitters[i])})]_vars

\* an update has returned whose culls removed the middle one of three particles
\* and the middle one of three emitters
C7_Witness ==
    /\ Returned
    /\ Len(particles) = 2
    /\ Len(emitters) = 2
    /\ \E i \in Idx("particle.removed") :
          particles[1].id < log[i].id /\ log[i].id < particles[2].id
    /\ \E i \in Idx("emitter.removed") :
          emitters[1].id < log[i].id /\ log[i].id < emitters[2].id

----------------------------------------------------------------------------
(* Fixed scenes (SpecScene) *)

\* one emitter that never dies and returns one particle of kind k with max_age m
OneEmitter(k, m) ==
    /\ Len(emitters) = 1
    /\ emitters[1] = [id |-> 1, rate |-> 1, kind |-> k, max_age |-> m, ttl |-> Forever]

Ages(ps) == {ps[i].age : i \in 1 .. Len(ps)}

(* C8: with one emitter that never dies and returns one MaxAging particle  *)
(* (age 0, max_age 2) per update, and update(1) called repeatedly, exactly  *)
(* one particle is held after every update; from the second update on, the  *)
(* particle of the previous update is culled in the update that admits the  *)
(* new one.                                                                 *)
C8_SteadyCount ==
    (OneEmitter("MaxAging", F64FromInt(2)) /\ dt = F64FromInt(1) /\ Returned) =>
        /\ Len(particles) = 1
        /\ particle_is_alive(particles[1])
        /\ IdxOf("push", particles[1].id) # {}
        /\ Frames >= 2 =>
              /\ Len(start_particles) = 1
              /\ start_particles[1].id # particles[1].id
              /\ IdxOf("particle.removed", start_particles[1].id) # {}

\* the third update(1) of that scene has returned
C8_Witness ==
    /\ OneEmitter("MaxAging", F64FromInt(2))
    /\ dt = F64FromInt(1)
    /\ Returned
    /\ Frames >= 3

(* C9 as stated: with one emitter returning one MaxAging particle (age 0,  *)
(* max_age 2*dt) per update(dt), the particle of an update is held after    *)
(* that update and after the next one, and is gone after the third.  In     *)
(* this scene the particle of the f-th update has id f + 1 and its age is   *)
(* dt times the number of updates it has been through.                      *)
C9_SurvivesOneMoreUpdate ==
    (OneEmitter("MaxAging", F64MulInt(2, dt)) /\ Returned) =>
        /\ Held(particles, Frames + 1)
        /\ Frames >= 2 => Held(particles, Frames)
        /\ Frames >= 3 => ~Held(particles, Frames - 1)

(* C9 amended: under the MaxAging liveness the particle of an update is    *)
(* held after that update and is culled by the next one, its second (age    *)
(* 2*dt = max_age is not alive); under BaseParticle::is_alive (age <=       *)
(* max_age) it is held after the next update too and culled by the third.   *)
C9_CulledOnSecondUpdate ==
    /\ (OneEmitter("MaxAging", F64MulInt(2, dt)) /\ Returned) =>
          /\ Ids(particles) = {Frames + 1}
          /\ Ages(particles) = {dt}
          /\ Frames >= 2 =>
                /\ IdxOf("particle.update", Frames) # {}
                /\ IdxOf("particle.removed", Frames) # {}
    /\ (OneEmitter("BaseParticle", F64MulInt(2, dt)) /\ Returned) =>
          /\ Ids(particles) = {Frames, Frames + 1} \ {1}
          /\ Ages(particles) = {F64MulInt(Frames + 2 - id, dt) : id \in Ids(particles)}
          /\ Frames >= 3 => IdxOf("particle.removed", Frames - 1) # {}

\* the third update(0.1) has returned, MaxAging particles of max_age 2 * 0.1
C9_Witness ==
    /\ OneEmitter("MaxAging", F64MulInt(2, dt))
    /\ dt = F64Tenth
    /\ Returned
    /\ Frames >= 3

----------------------------------------------------------------------------
(* C10 as stated: add_particle and add_emitter append to their collection   *)
(* without a liveness check and leave the other collection and the elements *)
(* already held as they are; what was added stays held until the next       *)
(* update call, a particle added while not alive up to the particle cull of *)
(* that call, which removes it.                                             *)
C10_AddAppendsUnchecked ==
    /\ op = "add_particle" =>
          /\ emitters = start_emitters
          /\ Len(particles) = Len(start_particles) + 1
          /\ SubSeq(particles, 1, Len(start_particles)) = start_particles
          /\ particles[Len(particles)].id = nextId - 1
    /\ op = "add_emitter" =>
          /\ particles = start_particles
          /\ Len(emitters) = Len(start_emitters) + 1
          /\ SubSeq(emitters, 1, Len(start_emitters)) = start_emitters
          /\ emitters[Len(emitters)].id = nextId - 1
    /\ pc = 0 =>
          \A id \in touched : Held(iter_particles(particles), id) \/ Held(emitters, id)
    /\ op = "update" =>
          \A i \in 1 .. Len(start_particles) :
              LET p == start_particles[i] IN
              /\ Idx("clean_particles") = {} => Held(particles, p.id)
              /\ (~particle_is_alive(p) /\ Idx("clean_particles") # {}) =>
                    /\ ~Held(particles, p.id)
                    /\ IdxOf("particle.removed", p.id) # {}

----------------------------------------------------------------------------
(* C11: draw calls draw() once on every held particle, in container order, *)
(* and changes nothing: the particle and emitter collections, and with them *)
(* every is_alive() result, are as they were when draw was entered;         *)
(* iter_particles and iter_emitters yield the held elements in container    *)
(* order.                                                                   *)
C11_DrawChangesNothing ==
    /\ op = "draw" =>
          /\ particles = start_particles
          /\ emitters = start_emitters
          /\ LogIds("particle.draw") = SeqIds(particles)
          /\ Len(log) = Len(particles)
          /\ pc = 0
          /\ new_particles = <<>>
    /\ pc = 0 =>
          /\ iter_particles(particles) = particles
          /\ iter_emitters(emitters) = emitters

\* draw has run on a system holding an emitter, an alive particle and one that is not
C11_Witness ==
    /\ op = "draw"
    /\ emitters # <<>>
    /\ \E i, j \in 1 .. Len(particles) :
          particle_is_alive(particles[i]) /\ ~particle_is_alive(particles[j])

----------------------------------------------------------------------------
\* some statement of the update call in progress can run
UpdateCanProceed ==
    ENABLED (\/ StepUpdateEmitters
             \/ StepAdmit
             \/ StepUpdateParticles
             \/ StepCleanParticles
             \/ StepCleanEmitters)

(* C12: update(dt) and draw() on a system that holds no particle and no    *)
(* emitter run to their end, call no particle or emitter method and leave   *)
(* the system empty.                                                        *)
C12_EmptySystemNoOp ==
    (start_particles = <<>> /\ start_emitters = <<>> /\ op \in {"update", "draw"}) =>
        /\ particles = <<>>
        /\ emitters = <<>>
        /\ new_particles = <<>>
        /\ \A i \in 1 .. Len(log) : log[i].ev \in Calls
        /\ op = "draw" => log = <<>>
        /\ pc # 0 => UpdateCanProceed

\* update(dt) with dt > 0 has returned on a system that was empty
C12_Witness ==
    /\ Returned
    /\ start_particles = <<>>
    /\ start_emitters = <<>>
    /\ F64Lt(F64Zero, dt)

----------------------------------------------------------------------------
\* the particles in the system or on their way into it
InSystem == {particles[i] : i \in 1 .. Len(particles)}
                \cup {new_particles[i] : i \in 1 .. Len(new_particles)}

(* C13 as stated: a MaxAging particle with max_age = 0 and age >= 0 has     *)
(* age_percent NaN (age = 0) or +infinity (age > 0), is_alive() is false    *)
(* for it from the first check, and the first particle cull it meets        *)
(* removes it.                                                              *)
C13_ZeroMaxAgeNotAlive ==
    /\ \A p \in InSystem :
          (p.kind = "MaxAging" /\ F64IsZero(p.max_age) /\ ~F64IsNeg(p.age)) =>
              /\ get_age_percent(p).cls = (IF F64IsZero(p.age) THEN "NaN" ELSE "+inf")
              /\ ~MaxAging_is_alive(p)
              /\ ~particle_is_alive(p)
    /\ (op = "update" /\ Idx("clean_particles") # {}) =>
          /\ \A k \in 1 .. Len(particles) :
                ~(particles[k].kind = "MaxAging" /\ F64IsZero(particles[k].max_age))
          /\ \A i \in 1 .. Len(start_particles) :
                (start_particles[i].kind = "MaxAging" /\ F64IsZero(start_particles[i].max_age))
                    => IdxOf("particle.removed", start_particles[i].id) # {}

(* C14 as stated: a MaxAging particle with a negative max_age and age >= 0 is not    *)
(* alive, and the first particle cull after it entered the system removes   *)
(* it.                                                                      *)
C14_NegativeMaxAgeNotAlive ==
    /\ \A p \in InSystem :
          (p.kind = "MaxAging" /\ F64IsNeg(p.max_age) /\ ~F64IsNeg(p.age)) => ~MaxAging_is_alive(p)
    /\ (op = "update" /\ Idx("clean_particles") # {}) =>
          \A k \in 1 .. Len(particles) :
              ~(particles[k].kind = "MaxAging" /\ F64IsNeg(particles[k].max_age))

----------------------------------------------------------------------------
\* the start emitter called id
StartEmitter(id) == CHOOSE e \in {start_emitters[i] : i \in 1 .. Len(start_emitters)} : e.id = id

\* B1 ++ ... ++ Bn as the emitters' update calls returned it
Births ==
    LET rets == SelectSeq(log, LAMBDA e : e.ev = "returned")
    IN [j \in 1 .. Len(rets) |->
           [id |-> rets[j].id, kind |-> StartEmitter(rets[j].src).kind, age |-> F64Zero,
            max_age |-> StartEmitter(rets[j].src).max_age]]

\* the emitters that returned the entries of Births, in that order
BirthSources ==
    LET rets == SelectSeq(log, LAMBDA e : e.ev = "returned")
    IN [j \in 1 .. Len(rets) |-> rets[j].src]

\* e1 rate(e1) times, then e2 rate(e2) times, ...
SourcesInOrder ==
    LET want[i \in 0 .. Len(start_emitters)] ==
            IF i = 0 THEN <<>>
            ELSE want[i - 1] \o [j \in 1 .. start_emitters[i].rate |-> start_emitters[i].id]
    IN want[Len(start_emitters)]

AdvancedEmitters ==
    [i \in 1 .. Len(start_emitters) |->
        [start_emitters[i] EXCEPT !.ttl = IF @ > 0 THEN @ - 1 ELSE @]]

\* P ++ B1 ++ ... ++ Bn, each integrated once with dt
IntegratedAll ==
    LET all == start_particles \o Births
    IN [i \in 1 .. Len(all) |-> [all[i] EXCEPT !.age = F64Add(@, dt)]]

(* C15: after update(dt) on particles P and emitters E = [e1..en] whose     *)
(* update calls returned B1..Bn, the particles are exactly the alive        *)
(* elements of P ++ B1 ++ ... ++ Bn in that order, each aged once by dt,    *)
(* the emitters are the alive elements of E in order, and every emitter is  *)
(* advanced before any collected particle is appended.                      *)
C15_UpdateResult ==
    /\ (op = "update" /\ Idx("update_emitters") # {}) =>
          /\ BirthSources = SourcesInOrder
          /\ LogIds("emitter.update") = SeqIds(start_emitters)
          /\ \A i \in Idx("emitter.update"), j \in Idx("push") : i < j
    /\ At("add_particle") =>
          /\ emitters = AdvancedEmitters
          /\ particles = start_particles
          /\ new_particles = Births
    /\ Returned =>
          /\ particles = SelectSeq(IntegratedAll, particle_is_alive)
          /\ emitters = SelectSeq(AdvancedEmitters, emitter_is_alive)
          /\ LogIds("push") = SeqIds(Births)

\* two emitters returned batches, one of them died, and of the particles held
\* before the call some were culled and some kept
C15_Witness ==
    /\ Returned
    /\ Len(start_emitters) = 2
    /\ Len(emitters) = 1
    /\ Len(Births) >= 2
    /\ \E i, j \in 1 .. Len(start_particles) :
          /\ Held(particles, start_particles[i].id)
          /\ ~Held(particles, start_particles[j].id)
    /\ \E i \in 1 .. Len(Births) : Held(particles, Births[i].id)

----------------------------------------------------------------------------
(* C16: in one update(dt) call every emitter held at the start has update   *)
(* invoked exactly once and every particle held at the start has update     *)
(* invoked exactly once, all with the same dt; none is skipped or advanced  *)
(* twice, those removed at the end of the call included.                    *)
C16_ExactlyOncePerFrame ==
    op = "update" =>
        /\ \A i \in 1 .. Len(log) : log[i].dt = dt
        /\ Idx("update_emitters") # {} =>
              \A i \in 1 .. Len(start_emitters) :
                  Cardinality(IdxOf("emitter.update", start_emitters[i].id)) = 1
        /\ Idx("update_emitters") = {} => Idx("emitter.update") = {}
        /\ (pc \in 2 .. Len(UpdateBody)) => emitters = AdvancedEmitters
        /\ Idx("update_particles") # {} =>
              \A i \in 1 .. Len(start_particles) :
                  Cardinality(IdxOf("particle.update", start_particles[i].id)) = 1
        /\ Idx("update_particles") = {} =>
              /\ Idx("particle.update") = {}
              /\ SubSeq(particles, 1, Len(start_particles)) = start_particles
        /\ At("clean_particles") =>
              /\ Len(particles) >= Len(start_particles)
              /\ \A i \in 1 .. Len(start_particles) :
                    particles[i] = [start_particles[i] EXCEPT !.age = F64Add(@, dt)]
        /\ Returned =>
              \A i \in 1 .. Len(particles) :
                  \A j \in 1 .. Len(start_particles) :
                      particles[i].id = start_particles[j].id =>
                          particles[i] = [start_particles[j] EXCEPT !.age = F64Add(@, dt)]

\* a call with dt > 0 returned that removed a particle and an emitter held at
\* its start, each updated once, and kept another particle
C16_Witness ==
    /\ Returned
    /\ F64Lt(F64Zero, dt)
    /\ \E i \in 1 .. Len(start_particles) :
          /\ ~particle_is_alive(start_particles[i])
          /\ ~Held(particles, start_particles[i].id)
          /\ Cardinality(IdxOf("particle.update", start_particles[i].id)) = 1
    /\ \E i \in 1 .. Len(start_particles) : Held(particles, start_particles[i].id)
    /\ \E i \in 1 .. Len(start_emitters) :
          /\ ~Held(emitters, start_emitters[i].id)
          /\ Cardinality(IdxOf("emitter.update", start_emitters[i].id)) = 1

----------------------------------------------------------------------------
\* the M of the scene: max_age = M as f64 * dt
ScenLife == CHOOSE m \in 1 .. MaxScenLife : emitters[1].max_age = F64MulInt(m, dt)

\* the age of a particle born with age 0 after j updates: dt added j times
AgeAfter(j) ==
    LET sum[i \in 0 .. j] == IF i = 0 THEN F64Zero ELSE F64Add(sum[i - 1], dt)
    IN sum[j]

(* C17 as stated: with a fixed dt > 0, no add_particle calls, E emitters    *)
(* each returning k particles per update, every particle born with age 0    *)
(* and max_age = M * dt, aging by dt per update under the default liveness, *)
(* the number of particles held after any update never exceeds              *)
(* E * k * (M - 1).                                                         *)
C17_BoundedPopulation ==
    (Returned /\ emitters[1].kind = "MaxAging") =>
        Len(particles) <= Len(emitters) * emitters[1].rate * (ScenLife - 1)

(* C17 amended: in that scene the number of particles held after any       *)
(* update never exceeds E * k * M, and it never exceeds E * k * (M - 1)     *)
(* when the age after M updates, the f64 sum of M times dt, is not below    *)
(* max_age, the f64 product M * dt.                                         *)
C17_BoundedByLife ==
    (Returned /\ emitters[1].kind = "MaxAging") =>
        LET E == Len(emitters)
            k == emitters[1].rate
            M == ScenLife
        IN /\ \A i \in 1 .. Len(particles) :
                 /\ particles[i].kind = "MaxAging"
                 /\ particles[i].max_age = emitters[1].max_age
           /\ Ages(particles) \subseteq {AgeAfter(j) : j \in 1 .. M}
           /\ Len(particles) <= E * k * M
           /\ ~F64Lt(AgeAfter(M), F64MulInt(M, dt)) => Len(particles) <= E * k * (M - 1)
           /\ Frames >= M =>
                 Len(particles) = E * k * (IF F64Lt(AgeAfter(M), F64MulInt(M, dt))
                                           THEN M ELSE M - 1)

\* dt = 0.1 and M = 6: the particles of the last six updates are held, two
\* emitters with two particles each, twenty-four particles; the oldest has
\* age 0.6 (the sum), below max_age 0.6000000000000001 (the product)
C17_Witness ==
    /\ Returned
    /\ dt = F64Tenth
    /\ Len(emitters) = 2
    /\ emitters[1].kind = "MaxAging"
    /\ emitters[1].rate = 2
    /\ ScenLife = 6
    /\ Len(particles) = 24
    /\ F64Lt(particles[1].age, particles[1].max_age)
    /\ particles[1].age = AgeAfter(6)
    /\ Frames >= 6

----------------------------------------------------------------------------
Empty == particles = <<>> /\ emitters = <<>>

\* age + dt is above age for every age below p.max_age: max_age < 2^52 * dt,
\* so that dt is at least the gap between age and the next f64
Aging(p) == F64Lt(F64Zero, p.max_age) /\ F64Lt(p.max_age, F64MulPow2(dt, 52))

\* no emitter is left and no particle that still ages and will be removed
Settled == emitters = <<>> /\ \A i \in 1 .. Len(particles) : ~Aging(particles[i])

\* after a returned update nothing dead is held, every held particle has aged
\* and is below its max_age, and an emitter that reported dead is gone
RemovalInv ==
    /\ F64Lt(F64Zero, dt)
    /\ \A i \in 1 .. Len(particles) :
          particles[i].id < nextId /\ F64Lt(F64Zero, particles[i].max_age)
    /\ Returned =>
          /\ \A i \in 1 .. Len(particles) :
                /\ particle_is_alive(particles[i])
                /\ F64Le(dt, particles[i].age)
                /\ F64Le(particles[i].age, particles[i].max_age)
                /\ particles[i].kind = "MaxAging" =>
                      F64Lt(particles[i].age, particles[i].max_age)
          /\ \A i \in 1 .. Len(emitters) : emitter_is_alive(emitters[i])
          /\ \A i \in 1 .. Len(start_emitters) :
                ~emitter_is_alive(AdvancedEmitters[i]) =>
                    /\ ~Held(emitters, start_emitters[i].id)
                    /\ IdxOf("emitter.removed", start_emitters[i].id) # {}
          /\ \A i \in 1 .. Len(start_particles) :
                ~Held(particles, start_particles[i].id) =>
                    IdxOf("particle.removed", start_particles[i].id) # {}
          /\ (start_particles = <<>> /\ start_emitters = <<>>) => Empty

\* what is held was held before or has just been created: nothing removed
\* comes back; no age goes down, and the age of a particle that is Aging and
\* below its max_age goes up in every integration
NoReturn ==
    /\ nextId' >= nextId
    /\ \A i \in 1 .. Len(particles') :
          Held(particles, particles'[i].id) \/ Held(new_particles, particles'[i].id)
    /\ \A i \in 1 .. Len(new_particles') :
          Held(new_particles, new_particles'[i].id) \/ new_particles'[i].id >= nextId
    /\ \A i \in 1 .. Len(emitters') : Held(emitters, emitters'[i].id)
    /\ \A i \in 1 .. Len(particles) :
          Held(particles', particles[i].id) =>
              \E j \in 1 .. Len(particles') :
                  /\ particles'[j].id = particles[i].id
                  /\ F64Le(particles[i].age, particles'[j].age)
                  /\ (At("update_particles") /\ Aging(particles[i])
                         /\ F64Lt(particles[i].age, particles[i].max_age)) =>
                        F64Lt(particles[i].age, particles'[j].age)

(* C18 as stated: while update(dt) keeps being called with a fixed dt > 0,  *)
(* every particle with finite max_age > 0 is eventually removed and never   *)
(* held again, every emitter that reports dead is removed, and once the     *)
(* emitters are gone the system eventually becomes and stays empty.         *)
C18_EventualRemoval == <>[]Empty

(* C18 amended: while update(dt) keeps being called with a fixed dt > 0,    *)
(* every particle with 0 < max_age < 2^52 * dt is eventually removed and    *)
(* never held again; every emitter whose is_alive() becomes false is        *)
(* removed by the update in which it first reports false and stays away;    *)
(* and once the emitters are gone the system eventually holds, for good,    *)
(* no particle but those with max_age >= 2^52 * dt that were added to it.   *)
(* NoReturn says that what was removed is never held again.                 *)
C18_RemovalWhileAging ==
    /\ []RemovalInv
    /\ [][NoReturn]_vars
    /\ <>[]Settled

\* an update has removed the last particles of a system whose emitters, all
\* gone before that call, had returned particles over several updates
C18_Witness ==
    /\ Returned
    /\ Empty
    /\ start_emitters = <<>>
    /\ Len(start_particles) >= 2
    /\ \E i \in 1 .. Len(start_particles) : start_particles[i].kind = "MaxAging"
    /\ \A i \in 1 .. Len(start_particles) :
          /\ Aging(start_particles[i])
          /\ IdxOf("particle.removed", start_particles[i].id) # {}
    /\ nextId > Len(start_particles) + 3

=============================================================================
